---- MODULE Spec2Model ----
(***************************************************************************)
(* Model of the client core of the 3CX CDR dashboard:                      *)
(*   - the Live Update Channel (RealtimeProvider): one EventSource per     *)
(*     connect, reconnect timers, token effect;                            *)
(*   - the Paginated Query Cache of the list views (CallLogsPage and       *)
(*     AreaCodesPage): page cache with TTL, eviction, prefetch.            *)
(*                                                                         *)
(* React specifics that the model keeps:                                   *)
(*   - a function created during a render (connect, fetchCallLogs, ...)    *)
(*     reads the state values of THAT render; a timer or an event handler  *)
(*     that calls it later still sees those values.  Every EventSource,    *)
(*     timer and in-flight request therefore carries the captured values;  *)
(*   - refs (useRef) are shared and always current;                        *)
(*   - a handler runs to completion and the component has re-rendered      *)
(*     before the next event is handled.                                   *)
(* The EventSource constructor is taken not to throw (the URL is built     *)
(* from a fixed base and encoded components), so the catch branch of       *)
(* connect is not modelled.                                                *)
(***************************************************************************)
EXTENDS Integers, Sequences, FiniteSets, Bags, TLC

(***************************************************************************)
(* Bounds of the model (not program constants).                            *)
(***************************************************************************)
MaxSources == 2      \* EventSource objects that are not CLOSED at the same time
MaxTimers == 2       \* timers pending at the same time
MaxErrRun == 3       \* transport errors in a row that are recorded

(***************************************************************************)
(* Values.                                                                 *)
(***************************************************************************)
Null == "null"
NoId == 0
HeldId == 1          \* reconnectTimeoutRef: the id of a timer that is pending
FiredId == 2         \* reconnectTimeoutRef: the id of a timer that has fired
Tokens == {"t1"}
Collections == {"cdrs_143.198.0.104", "cdrs_167.71.120.52"}
NoData == [none |-> TRUE]
Payloads == {[summary |-> 1], [areaCodeDistribution |-> 2]}
GaveUp == -1

maxReconnectAttempts == 5
BackoffBase == 1000
BackoffCap == 30000
RefreshDelay == 100

Min(a, b) == IF a < b THEN a ELSE b

\* Math.min(1000 * Math.pow(2, attempts), 30000)
BackoffDelay(attempts) == Min(BackoffBase * (2 ^ attempts), BackoffCap)

(***************************************************************************)
(* Inbound events of the push stream: event.data is a string; the handler  *)
(* parses it with JSON.parse and reads message.type.                       *)
(***************************************************************************)
RawEvents ==
  { [shape |-> "garbage", type |-> Null, data |-> NoData, timestamp |-> Null],
    [shape |-> "null", type |-> Null, data |-> NoData, timestamp |-> Null],
    [shape |-> "object", type |-> "connected", data |-> NoData, timestamp |-> "ts0"],
    [shape |-> "object", type |-> "heartbeat", data |-> NoData, timestamp |-> "ts0"],
    [shape |-> "object", type |-> "other", data |-> [summary |-> 1], timestamp |-> "ts0"],
    [shape |-> "object", type |-> "dashboard-update", data |-> NoData, timestamp |-> "ts0"],
    [shape |-> "object", type |-> "dashboard-update", data |-> [summary |-> 1], timestamp |-> "ts1"],
    [shape |-> "object", type |-> "dashboard-update", data |-> [areaCodeDistribution |-> 2], timestamp |-> "ts2"] }

NoEvent == [shape |-> "none", type |-> Null, data |-> NoData, timestamp |-> Null]

\* JSON.parse: throws on text that is not JSON
JSONParse(raw) ==
  IF raw.shape = "garbage" THEN [threw |-> TRUE, isObject |-> FALSE, value |-> NoEvent]
  ELSE [threw |-> FALSE, isObject |-> (raw.shape = "object"), value |-> raw]

VARIABLES
  token,                \* useAuth().token
  isConnected,          \* useState
  dashboardData,        \* useState
  lastUpdate,           \* useState
  connectionStatus,     \* useState
  eventSourceRef,       \* useRef: id of the held EventSource, NoId for null
  reconnectTimeoutRef,  \* useRef: NoId for null, HeldId, FiredId
  currentCollectionRef, \* useRef
  reconnectAttemptsRef, \* useRef
  sources,              \* the EventSource objects ever created: id -> record
  timers,               \* pending setTimeout callbacks of the provider, a bag
  errRun,               \* history: outcome of every transport error since the last consumer call or open
  heartbeatLast,        \* history: the last inbound event handled was a heartbeat
  lastDataMsg,          \* history: the last inbound dashboard-update that carried data
  targeted              \* history: the collection last connected to and not given up by a consumer

chanVars == <<token, isConnected, dashboardData, lastUpdate, connectionStatus,
              eventSourceRef, reconnectTimeoutRef, currentCollectionRef,
              reconnectAttemptsRef, sources, timers,
              errRun, heartbeatLast, lastDataMsg, targeted>>

VARIABLES
  view,             \* the list view that is mounted: "callLogs" or "areaCodes"
  q,                \* the query parameters of the current render (state, context, URL)
  rows,             \* callLogs / areaCodes: the visible rows
  pagination,       \* useState: the visible pagination
  isInitialLoading, \* useState
  isLoading,        \* useState (AreaCodesPage)
  error,            \* the shared error slot (DataContext setError)
  pageCache,        \* useState: the Map, as the sequence of its entries in insertion order
  inflight,         \* requests sent to the data service and not yet answered
  ltimers,          \* pending setTimeout callbacks of the list view
  servicePages,     \* the number of pages the data service reports
  ops,              \* what is left of the budgets of the behaviour
  reads             \* history: the cache reads of the last step

listVars == <<view, q, rows, pagination, isInitialLoading, isLoading, error, pageCache,
              inflight, ltimers, servicePages, ops, reads>>

VARIABLES
  providerMounted,  \* the RealtimeProvider is mounted
  dashboard         \* DashboardPage: mounted, and the isConnected its connection effect captured

mountVars == <<providerMounted, dashboard>>

VARIABLES
  localStorage,     \* the item 'dataSourceNames' of localStorage, or the storage is unavailable
  names             \* what getDataSourceNames() returned last

settingsVars == <<localStorage, names>>

VARIABLES
  usersQuery,       \* UsersPage useState: currentPage, itemsPerPage, searchTerm, selectedRole, sortBy, sortOrder
  usersShown,       \* UsersPage useState: users, totalPages, totalCount, error, loading
  usersRequests,    \* calls of fetchUsers that are waiting for userService.getUsers
  usersRun          \* the number of runs of the fetch effect: AbortControllers 1..usersRun-1 are aborted

usersVars == <<usersQuery, usersShown, usersRequests, usersRun>>

VARIABLE
  snapshotOf        \* history: the collection of the subscription that delivered dashboardData

VARIABLES
  user,               \* useAuth().user: NoUser, or the user with their databasePermissions
  selectedDataSource, \* DataContext state.selectedDataSource
  storedDataSource,   \* the item 'selectedDataSource' of localStorage, Null when absent
  enforcement         \* the enforcing effect is due; history: its runs, the last write, the calls left

dataVars == <<user, selectedDataSource, storedDataSource, enforcement>>

vars == <<chanVars, listVars, mountVars, settingsVars, usersVars, snapshotOf, dataVars>>

(***************************************************************************)
(* The data-source names of settingsService.  A JSON value is written as   *)
(* its type and the text String(value) gives for it; the stored item is    *)
(* written as the shape JSON.parse finds and, for an object, the value     *)
(* under each data-source key.                                             *)
(***************************************************************************)
DataSourceKeys == Collections

DEFAULT_NAMES ==
  [key \in DataSourceKeys |-> IF key = "cdrs_143.198.0.104" THEN "Option 1" ELSE "Option 2"]

Undefined == [t |-> "undefined", s |-> "undefined"]
Str(text) == [t |-> "string", s |-> text]

StoredValues ==
  { Undefined, Str(""), Str("Main"),
    [t |-> "number", s |-> "0"], [t |-> "null", s |-> "null"],
    [t |-> "boolean", s |-> "true"],
    [t |-> "array", s |-> ""],                    \* []
    [t |-> "object", s |-> "[object Object]"] }   \* {}

\* a value is truthy unless it is undefined, null, false, 0 or ''
Truthy(v) ==
  CASE v.t \in {"undefined", "null"} -> FALSE
    [] v.t = "string" -> v.s # ""
    [] v.t = "number" -> v.s # "0"
    [] v.t = "boolean" -> v.s = "true"
    [] OTHER -> TRUE

\* a || b
OrElse(a, b) == IF Truthy(a) THEN a ELSE b

NoEntries == [key \in DataSourceKeys |-> Undefined]

StoredItems ==
  {[shape |-> sh, entries |-> NoEntries] :
     sh \in {"unavailable", "absent", "empty", "garbage", "null", "number", "string", "array"}}
    \cup {[shape |-> "object", entries |-> e] : e \in [DataSourceKeys -> StoredValues]}

\* readStoredNames(): {} when getItem or JSON.parse throws, when the item is absent
\* or '', and when the parsed value is falsy or not of type object
readStoredNames(ls) ==
  IF ls.shape \in {"unavailable", "absent", "empty", "garbage", "null", "number", "string"}
  THEN [shape |-> "object", entries |-> NoEntries]
  ELSE ls

\* writeStoredNames(names): a failure of setItem is ignored; JSON.stringify of an
\* array leaves out the properties that are not indices
writeStoredNames(ls, value) ==
  IF ls.shape = "unavailable" THEN ls
  ELSE IF value.shape = "array" THEN [shape |-> "array", entries |-> NoEntries]
  ELSE value

getDataSourceNames(ls) ==
  [key \in DataSourceKeys |->
     OrElse(readStoredNames(ls).entries[key], Str(DEFAULT_NAMES[key]))]

\* the names setDataSourceName is called with, and String.prototype.trim on them
NameInputs == {"", " ", "Main"}
TrimName(name) == IF name = " " THEN "" ELSE name

setDataSourceName(ls, key, name) ==
  LET trimmed == TrimName(name)
      current == readStoredNames(ls)
  IN writeStoredNames(ls, [current EXCEPT !.entries[key] =
                             OrElse(Str(trimmed), Str(DEFAULT_NAMES[key]))])

(***************************************************************************)
(* UsersPage: the list of users behind page, page size, search, role and   *)
(* sort.  The fetch effect makes an AbortController per run, hands its     *)
(* signal to fetchUsers and aborts it in its cleanup.                      *)
(***************************************************************************)
MaxUsersRuns == 3    \* runs of the fetch effect in a behaviour
UsersCount == 15     \* users the service holds

UsersPageSizes == {10, 25}
UsersSearches == {"", "ann"}
UsersRoles == {"", "admin"}
UsersSortFields == {"createdAt", "email"}
NoUsers == [none |-> TRUE]
NoSignal == 0

\* the useState initial values
InitialUsersQuery ==
  [currentPage |-> 1, itemsPerPage |-> 10, searchTerm |-> "", selectedRole |-> "",
   sortBy |-> "createdAt", sortOrder |-> "desc"]

InitialUsersShown ==
  [users |-> NoUsers, totalPages |-> 1, totalCount |-> 0, error |-> Null, loading |-> TRUE]

\* Math.ceil(count / limit)
PagesOf(count, limit) == (count + limit - 1) \div limit

\* what the service answers to a request: the users that match, named by the request
UsersResponse(params) ==
  LET count == IF params.searchTerm = "" /\ params.selectedRole = ""
               THEN UsersCount ELSE UsersCount \div 3
  IN [users |-> params, totalPages |-> PagesOf(count, params.itemsPerPage),
      totalCount |-> count]

\* userService.getUsers(params): the method has one parameter and passes it to
\* apiClient.get; a second argument of the call reaches no request
getUsers(params, signal) == [params |-> params, signal |-> NoSignal]

\* the request rejects with CanceledError once the controller of its signal is aborted
Canceled(request, run) == request.signal # NoSignal /\ request.signal < run

\* fetchUsers(signal) up to its await
fetchUsers(shown, requests, query, signal, run) ==
  [shown |-> [shown EXCEPT !.loading = TRUE, !.error = Null],
   requests |-> requests \cup {[request |-> getUsers(query, signal), run |-> run]}]

\* fetchUsers after its await: the try, the catch and the finally
fetchUsersSettled(shown, call, ok, run) ==
  LET response == UsersResponse(call.request.params)
      tried == IF Canceled(call.request, run) THEN shown
               ELSE IF ok THEN [shown EXCEPT !.users = response.users,
                                             !.totalPages = response.totalPages,
                                             !.totalCount = response.totalCount]
               ELSE [shown EXCEPT !.error = "Failed to fetch users"]
  IN [tried EXCEPT !.loading = FALSE]

\* the states one handler of the page leaves: the page buttons, the page-size
\* select, the debounced search, the role select, handleSort
UsersHandlers(query, shown) ==
  {[query EXCEPT !.currentPage = p] :
     p \in {1, shown.totalPages,
            IF query.currentPage > 1 THEN query.currentPage - 1 ELSE 1,
            Min(query.currentPage + 1, shown.totalPages)}}
  \cup {[query EXCEPT !.itemsPerPage = size, !.currentPage = 1] : size \in UsersPageSizes}
  \cup {[query EXCEPT !.searchTerm = value, !.currentPage = 1] : value \in UsersSearches}
  \cup {[query EXCEPT !.selectedRole = role, !.currentPage = 1] : role \in UsersRoles}
  \cup {IF query.sortBy = field
        THEN [query EXCEPT !.currentPage = 1,
                           !.sortOrder = IF query.sortOrder = "asc" THEN "desc" ELSE "asc"]
        ELSE [query EXCEPT !.currentPage = 1, !.sortBy = field, !.sortOrder = "asc"] :
          field \in UsersSortFields}

(***************************************************************************)
(* The refs and the connection state as one record, so that connect and    *)
(* disconnect can be composed as the code composes them.                   *)
(***************************************************************************)
Chan ==
  [isConnected |-> isConnected, connectionStatus |-> connectionStatus,
   eventSourceRef |-> eventSourceRef, reconnectTimeoutRef |-> reconnectTimeoutRef,
   currentCollectionRef |-> currentCollectionRef,
   reconnectAttemptsRef |-> reconnectAttemptsRef,
   sources |-> sources, timers |-> timers, targeted |-> targeted]

SetChan(s) ==
  /\ isConnected' = s.isConnected
  /\ connectionStatus' = s.connectionStatus
  /\ eventSourceRef' = s.eventSourceRef
  /\ reconnectTimeoutRef' = s.reconnectTimeoutRef
  /\ currentCollectionRef' = s.currentCollectionRef
  /\ reconnectAttemptsRef' = s.reconnectAttemptsRef
  /\ sources' = s.sources
  /\ timers' = s.timers
  /\ targeted' = s.targeted

(***************************************************************************)
(* Object identity.  An EventSource is named by an id that is only ever    *)
(* compared with the ref that holds it, so the id of a source that is      *)
(* CLOSED and that the ref does not hold is given to the next source.      *)
(* A timer id is only ever handed to clearTimeout through                  *)
(* reconnectTimeoutRef: the pending timer whose id the ref holds is the    *)
(* one marked held, and the pending timers are a bag of callbacks.         *)
(***************************************************************************)
SourceIds == 1..MaxSources

Live(src) == src.state \in {"connecting", "open"}

FreeSourceIds(s) == {i \in SourceIds : ~Live(s.sources[i]) /\ i # s.eventSourceRef}

SmallestOf(S) == CHOOSE i \in S : \A j \in S : i <= j

\* the id of a new source: not the id of the source it replaces, when another is free
NewSourceId(s, replaced) ==
  IF FreeSourceIds(s) \ {replaced} # {} THEN SmallestOf(FreeSourceIds(s) \ {replaced})
  ELSE SmallestOf(FreeSourceIds(s))

CanSetTimeout(s) == BagCardinality(s.timers) < MaxTimers

UnusedSource == [state |-> "unused", coll |-> Null, tok |-> Null, conn |-> FALSE]
ClosedSource == [state |-> "closed", coll |-> Null, tok |-> Null, conn |-> FALSE]

\* mutant: the held source is dropped without close()
CloseSourceLeft(srcs, id) == srcs

\* EventSource.close(): readyState becomes CLOSED and no event is dispatched any more
CloseSource(srcs, id) == [srcs EXCEPT ![id] = ClosedSource]

Pending(ts) == BagToSet(ts)
HeldTimers(ts) == {t \in Pending(ts) : t.held}

\* setTimeout(callback, delay)
SetTimeout(ts, t) == ts (+) SetToBag({t})

\* the timer is taken out of the pending ones (it fires or it is cleared)
RemoveTimer(ts, t) == ts (-) SetToBag({t})

\* clearTimeout(reconnectTimeoutRef.current): the pending timer with that id is
\* removed; the id of a timer that has fired removes nothing
ClearTimeout(ts, id) ==
  IF id = HeldId /\ HeldTimers(ts) # {}
  THEN RemoveTimer(ts, CHOOSE t \in HeldTimers(ts) : TRUE)
  ELSE ts

\* reconnectTimeoutRef.current = <another id>: a timer the ref held stays pending
\* but its id is lost
ForgetHeld(ts) ==
  IF HeldTimers(ts) # {}
  THEN LET t == CHOOSE h \in HeldTimers(ts) : TRUE
       IN SetTimeout(RemoveTimer(ts, t), [t EXCEPT !.held = FALSE])
  ELSE ts

disconnect(s) ==
  LET s1 == IF s.eventSourceRef # NoId
            THEN [s EXCEPT !.sources = CloseSource(s.sources, s.eventSourceRef),
                           !.eventSourceRef = NoId]
            ELSE s
      s2 == IF s1.reconnectTimeoutRef # NoId
            THEN [s1 EXCEPT !.timers = ClearTimeout(s1.timers, s1.reconnectTimeoutRef),
                            !.reconnectTimeoutRef = NoId]
            ELSE s1
  IN [s2 EXCEPT !.isConnected = FALSE,
                !.connectionStatus = "disconnected",
                !.currentCollectionRef = Null,
                !.reconnectAttemptsRef = 0]

\* the two early returns of connect, with the token and isConnected the closure captured
ConnectReturnsEarly(s, collection, tok, conn) ==
  \/ tok = Null
  \/ (s.eventSourceRef # NoId /\ s.currentCollectionRef = collection /\ conn)

connect(s, collection, tok, conn) ==
  IF ConnectReturnsEarly(s, collection, tok, conn) THEN s
  ELSE LET d == disconnect(s)
           id == NewSourceId(d, s.eventSourceRef)
       IN [d EXCEPT !.currentCollectionRef = collection,
                    !.targeted = collection,
                    !.connectionStatus = "connecting",
                    !.sources = [d.sources EXCEPT ![id] =
                                   [state |-> "connecting", coll |-> collection,
                                    tok |-> tok, conn |-> conn]],
                    !.eventSourceRef = id]

\* a call of connect stays within the bound on EventSource objects
CanConnect(s, collection, tok, conn) ==
  ConnectReturnsEarly(s, collection, tok, conn) \/ FreeSourceIds(disconnect(s)) # {}

TypeOK ==
  /\ token \in Tokens \cup {Null}
  /\ isConnected \in BOOLEAN
  /\ connectionStatus \in {"connecting", "connected", "disconnected", "error"}
  /\ eventSourceRef \in SourceIds \cup {NoId}
  /\ reconnectTimeoutRef \in {NoId, HeldId, FiredId}
  /\ (reconnectTimeoutRef = HeldId) = (HeldTimers(timers) # {})
  /\ \A t \in HeldTimers(timers) : CopiesIn(t, timers) = 1 /\ HeldTimers(timers) = {t}
  /\ reconnectAttemptsRef \in Nat

ChanInit ==
  /\ token \in {Null, "t1"}
  /\ isConnected = FALSE
  /\ dashboardData = NoData
  /\ lastUpdate = Null
  /\ connectionStatus = "disconnected"
  /\ eventSourceRef = NoId
  /\ reconnectTimeoutRef = NoId
  /\ currentCollectionRef = Null
  /\ reconnectAttemptsRef = 0
  /\ sources = [i \in SourceIds |-> UnusedSource]
  /\ timers = EmptyBag
  /\ providerMounted = TRUE
  /\ localStorage = [shape |-> "absent", entries |-> NoEntries]
  /\ names = [key \in DataSourceKeys |-> Str(DEFAULT_NAMES[key])]
  /\ dashboard = [mounted |-> FALSE, isConnected |-> FALSE, collection |-> Null]
  /\ targeted = Null
  /\ errRun = <<>>
  /\ heartbeatLast = FALSE
  /\ lastDataMsg = NoEvent
  /\ usersQuery = InitialUsersQuery
  /\ usersShown = InitialUsersShown
  /\ usersRequests = {}
  /\ usersRun = 0
  /\ snapshotOf = Null
  /\ user = [loggedIn |-> FALSE, databasePermissions |-> <<>>]
  /\ selectedDataSource = ""
  /\ storedDataSource = Null
  /\ enforcement = [due |-> FALSE, mounted |-> FALSE, runs |-> 0, lastWrite |-> "none", calls |-> 0]

(***************************************************************************)
(* Operations of the channel called by consumers (DashboardPage): the      *)
(* connect / disconnect / refreshData of the current render.               *)
(***************************************************************************)
ConsumerConnect(collection) ==
  /\ UNCHANGED <<listVars, mountVars, settingsVars, usersVars, snapshotOf, dataVars>>
  /\ CanConnect(Chan, collection, token, isConnected)
  /\ SetChan(connect(Chan, collection, token, isConnected))
  /\ errRun' = <<>>
  /\ UNCHANGED <<token, dashboardData, lastUpdate, heartbeatLast, lastDataMsg>>

ConsumerDisconnect ==
  /\ UNCHANGED <<listVars, mountVars, settingsVars, usersVars, snapshotOf, dataVars>>
  /\ SetChan([disconnect(Chan) EXCEPT !.targeted = Null])
  /\ errRun' = <<>>
  /\ UNCHANGED <<token, dashboardData, lastUpdate, heartbeatLast, lastDataMsg>>

\* setTimeout(() => connect(collection), 100): the timer is not kept in any ref
refreshData(s, tok, conn) ==
  IF s.currentCollectionRef # Null
  THEN LET collection == s.currentCollectionRef
           d == disconnect(s)
       IN [d EXCEPT !.timers = SetTimeout(@, [kind |-> "refresh", coll |-> collection,
                                              tok |-> tok, conn |-> conn,
                                              delay |-> RefreshDelay, held |-> FALSE])]
  ELSE s

RefreshData ==
  /\ UNCHANGED <<listVars, mountVars, settingsVars, usersVars, snapshotOf, dataVars>>
  /\ (currentCollectionRef # Null) => CanSetTimeout(disconnect(Chan))
  /\ SetChan(refreshData(Chan, token, isConnected))
  /\ errRun' = <<>>
  /\ UNCHANGED <<token, dashboardData, lastUpdate, heartbeatLast, lastDataMsg>>

(***************************************************************************)
(* useEffect(..., [token]): runs after the render in which the token       *)
(* changed, with the connect of that render.                               *)
(***************************************************************************)
tokenEffect(s, tok) ==
  IF tok # Null /\ s.currentCollectionRef # Null
  THEN connect(s, s.currentCollectionRef, tok, s.isConnected)
  ELSE IF tok = Null THEN disconnect(s)
  ELSE s

TokenChange(tok) ==
  /\ UNCHANGED <<listVars, mountVars, settingsVars, usersVars, snapshotOf, dataVars>>
  /\ tok # token
  /\ (tok # Null /\ currentCollectionRef # Null)
        => CanConnect(Chan, currentCollectionRef, tok, isConnected)
  /\ token' = tok
  /\ SetChan(tokenEffect(Chan, tok))
  /\ errRun' = <<>>
  /\ UNCHANGED <<dashboardData, lastUpdate, heartbeatLast, lastDataMsg>>

(***************************************************************************)
(* Events of an EventSource.  A source that is CLOSED dispatches nothing.  *)
(***************************************************************************)
\* mutant: onopen sets the flag and leaves the status as it is
onopenFlagOnly(s) ==
  [s EXCEPT !.isConnected = TRUE, !.reconnectAttemptsRef = 0]

onopen(s) ==
  [s EXCEPT !.isConnected = TRUE, !.connectionStatus = "connected",
            !.reconnectAttemptsRef = 0]

ESOpen(i) ==
  /\ UNCHANGED <<listVars, mountVars, settingsVars, usersVars, snapshotOf, dataVars>>
  /\ sources[i].state = "connecting"
  /\ SetChan(onopen([Chan EXCEPT !.sources[i].state = "open"]))
  /\ errRun' = <<>>
  /\ UNCHANGED <<token, dashboardData, lastUpdate, heartbeatLast, lastDataMsg>>

\* mutant: a dashboard-update is merged into the snapshot held so far
onmessageMerging(snap, raw) ==
  LET parsed == JSONParse(raw)
      message == parsed.value
  IN IF parsed.threw \/ ~parsed.isObject THEN snap
     ELSE IF message.type = "dashboard-update" /\ message.data # NoData
          THEN [dashboardData |-> message.data @@ snap.dashboardData,
                lastUpdate |-> message.timestamp]
     ELSE snap

\* mutant: a heartbeat resets the snapshot
onmessageHeartbeatResets(snap, raw) ==
  LET parsed == JSONParse(raw)
      message == parsed.value
  IN IF parsed.threw \/ ~parsed.isObject THEN snap
     ELSE IF message.type = "heartbeat"
          THEN [dashboardData |-> NoData, lastUpdate |-> message.timestamp]
     ELSE IF message.type = "dashboard-update" /\ message.data # NoData
          THEN [dashboardData |-> message.data, lastUpdate |-> message.timestamp]
     ELSE snap

\* the snapshot and the timestamp after the handler has run on one event
onmessage(snap, raw) ==
  LET parsed == JSONParse(raw)
      message == parsed.value
  IN IF parsed.threw THEN snap                    \* caught and logged
     ELSE IF ~parsed.isObject THEN snap           \* message.type throws, caught
     ELSE IF message.type = "connected" THEN snap
     ELSE IF message.type = "heartbeat" THEN snap
     ELSE IF message.type = "dashboard-update"
          THEN IF message.data # NoData
               THEN [dashboardData |-> message.data, lastUpdate |-> message.timestamp]
               ELSE snap
     ELSE snap                                    \* default: logged

IsDataUpdate(raw) ==
  raw.shape = "object" /\ raw.type = "dashboard-update" /\ raw.data # NoData

ESMessage(i, raw) ==
  /\ sources[i].state = "open"
  /\ LET r == onmessage([dashboardData |-> dashboardData, lastUpdate |-> lastUpdate], raw)
     IN /\ dashboardData' = r.dashboardData
        /\ lastUpdate' = r.lastUpdate
  /\ heartbeatLast' = (raw.shape = "object" /\ raw.type = "heartbeat")
  /\ lastDataMsg' = IF IsDataUpdate(raw) THEN raw ELSE lastDataMsg
  /\ UNCHANGED <<token, isConnected, connectionStatus, eventSourceRef, reconnectTimeoutRef,
                 currentCollectionRef, reconnectAttemptsRef, sources, timers, errRun,
                 targeted>>
  /\ snapshotOf' = IF IsDataUpdate(raw) THEN sources[i].coll ELSE snapshotOf
  /\ UNCHANGED <<listVars, mountVars, settingsVars, usersVars, dataVars>>

\* onerror of the source that connect(collection) created in a render with (tok, conn)
onerror(s, collection, tok, conn) ==
  LET s1 == [s EXCEPT !.isConnected = FALSE, !.connectionStatus = "error"]
  IN IF s1.reconnectAttemptsRef < maxReconnectAttempts
     THEN [s1 EXCEPT !.timers = SetTimeout(ForgetHeld(@),
                                           [kind |-> "reconnect", coll |-> collection,
                                            tok |-> tok, conn |-> conn,
                                            delay |-> BackoffDelay(s1.reconnectAttemptsRef),
                                            held |-> TRUE]),
                     !.reconnectTimeoutRef = HeldId]
     ELSE [s1 EXCEPT !.connectionStatus = "disconnected"]

\* fatal: the browser fails the connection (CLOSED); otherwise it re-establishes it
\* by itself (CONNECTING) and the same source may open or fail again
ESErrorWithin(i, fatal, maxRun) ==
  /\ UNCHANGED <<listVars, mountVars, settingsVars, usersVars, snapshotOf, dataVars>>
  /\ sources[i].state \in {"connecting", "open"}
  /\ Len(errRun) < maxRun
  /\ (reconnectAttemptsRef < maxReconnectAttempts) => CanSetTimeout(Chan)
  /\ LET src == sources[i]
         s0 == [Chan EXCEPT !.sources[i] = IF fatal THEN ClosedSource
                                           ELSE [src EXCEPT !.state = "connecting"]]
     IN SetChan(onerror(s0, src.coll, src.tok, src.conn))
  /\ errRun' = Append(errRun, IF reconnectAttemptsRef < maxReconnectAttempts
                              THEN BackoffDelay(reconnectAttemptsRef) ELSE GaveUp)
  /\ UNCHANGED <<token, dashboardData, lastUpdate, heartbeatLast, lastDataMsg>>

ESError(i, fatal) == ESErrorWithin(i, fatal, MaxErrRun)

(***************************************************************************)
(* A pending timer fires.                                                  *)
(***************************************************************************)
timerCallback(s, t) ==
  IF t.kind = "reconnect"
  THEN connect([s EXCEPT !.reconnectAttemptsRef = @ + 1], t.coll, t.tok, t.conn)
  ELSE connect(s, t.coll, t.tok, t.conn)

TimerFire(t) ==
  /\ UNCHANGED <<listVars, mountVars, settingsVars, usersVars, snapshotOf, dataVars>>
  /\ t \in Pending(timers)
  /\ LET s0 == [Chan EXCEPT !.timers = RemoveTimer(@, t),
                            !.reconnectTimeoutRef = IF t.held THEN FiredId ELSE @]
         s1 == IF t.kind = "reconnect" THEN [s0 EXCEPT !.reconnectAttemptsRef = @ + 1] ELSE s0
     IN /\ CanConnect(s1, t.coll, t.tok, t.conn)
        /\ SetChan(timerCallback(s0, t))
  /\ UNCHANGED <<token, dashboardData, lastUpdate, errRun, heartbeatLast, lastDataMsg>>

(***************************************************************************)
(* The Paginated Query Cache of the list views: CallLogsPage and           *)
(* AreaCodesPage (the same mechanism, written twice).                      *)
(*                                                                         *)
(* Time is relative: a timer carries the time left until it fires, a       *)
(* cache entry its age (Date.now() - timestamp), saturating above the TTL. *)
(* Rows are represented by the request they are the answer to.             *)
(***************************************************************************)
TotalPages == 2          \* pages the data service reports for every query
MaxInflight == 2         \* requests in flight at the same time
MaxListTimers == 2       \* list-view timers pending at the same time
MaxChanges == 1          \* changes of a query parameter in one behaviour
MaxClicks == 1           \* clicks on a pagination button in one behaviour
MaxWaits == 1            \* looks at the clock between timers in one behaviour

CacheTTL == 300000
CacheLimit == 50
PrefetchDelay == 200
PrefetchStagger == 100
PageChangePrefetchDelay == 50
CallLogsPageSize == 100
AreaCodesLimit == 25
AgeCap == CacheTTL + 1
RequestTimeout == 30000

Views == {"callLogs", "areaCodes"}
SearchDebounce(v) == IF v = "callLogs" THEN 150 ELSE 300
InitialSortBy(v) == IF v = "callLogs" THEN "startTime" ELSE "totalCalls"
SortColumns(v) == IF v = "callLogs" THEN {"startTime", "duration"} ELSE {"totalCalls", "areaCode"}
PageSizes == {25, 100}
SearchInputs == {"", "555", "555 "}
NoFilters == [areaCode |-> Null, callType |-> Null, extension |-> Null]
FilterValues == {NoFilters, [areaCode |-> "212", callType |-> Null, extension |-> Null]}
UrlValues ==
  [type |-> {Null, "incoming"}, areaCode |-> {Null, "415"},
   extension |-> {Null, "101"}, state |-> {Null, "NY"}]

\* a || b of JavaScript on values that are null or non-empty strings
Or(a, b) == IF a # Null THEN a ELSE b

\* String.prototype.trim on the search inputs of the model
Trim(str) == IF str = "555 " THEN "555" ELSE str

NoRows ==
  [page |-> 0, limit |-> 0, sortBy |-> Null, sortOrder |-> Null, search |-> Null,
   collection |-> Null, callType |-> Null, areaCode |-> Null, extension |-> Null,
   state |-> Null]

\* the data source of the context before the provider has chosen one
NoDataSource == ""

\* the parameters of the first render: the useState initial values, the data source
\* and filters of the context, a URL without search parameters
InitialParams(v, ds) ==
  [pageSize |-> IF v = "callLogs" THEN CallLogsPageSize ELSE 0,
   sortBy |-> InitialSortBy(v), sortOrder |-> "desc", searchTerm |-> "",
   selectedDataSource |-> ds, filters |-> NoFilters,
   urlCallType |-> Null, urlAreaCode |-> Null, urlExtension |-> Null,
   stateFilter |-> Null, memoAreaCode |-> Null, memoExtension |-> Null]

InitialPagination(v) ==
  [currentPage |-> 1, totalPages |-> 1,
   limit |-> IF v = "callLogs" THEN CallLogsPageSize ELSE AreaCodesLimit]

\* what a render closes over: the parameters, the Map, whether the visible list is
\* empty, pagination.limit
Closure(L, params) ==
  [q |-> params, cache |-> L.pageCache, empty |-> (L.rows = NoRows),
   limit |-> L.pagination.limit]

\* placeholder in the timers that close over setters only
NoClosure == [q |-> InitialParams("callLogs", NoDataSource), cache |-> <<>>, empty |-> TRUE, limit |-> 0]

\* getCacheKey(page): the components of the template string, joined with "-" in the
\* code; the filters stand for JSON.stringify(filters)
getCacheKey(v, params, page) ==
  IF v = "callLogs"
  THEN <<page, params.pageSize, params.sortBy, params.sortOrder, params.searchTerm,
         params.selectedDataSource, params.filters, params.urlCallType>>
  ELSE <<page, params.sortBy, params.sortOrder, params.searchTerm,
         params.selectedDataSource, params.filters, params.stateFilter>>

\* the params object handed to dataService.getCallLogs / getAreaCodes; the call-logs
\* view reads areaCode and extension from the searchParams its fetchCallLogs captured
RequestParams(v, C, page) ==
  IF v = "callLogs"
  THEN [page |-> page, limit |-> C.q.pageSize, sortBy |-> C.q.sortBy,
        sortOrder |-> C.q.sortOrder, search |-> C.q.searchTerm,
        collection |-> C.q.selectedDataSource,
        callType |-> Or(C.q.urlCallType, C.q.filters.callType),
        areaCode |-> Or(C.q.memoAreaCode, C.q.filters.areaCode),
        extension |-> Or(C.q.memoExtension, C.q.filters.extension),
        state |-> Null]
  ELSE [page |-> page, limit |-> C.limit, sortBy |-> C.q.sortBy,
        sortOrder |-> C.q.sortOrder, search |-> Trim(C.q.searchTerm),
        collection |-> C.q.selectedDataSource,
        callType |-> C.q.filters.callType,
        areaCode |-> C.q.filters.areaCode,
        extension |-> C.q.filters.extension,
        state |-> C.q.stateFilter]

\* response.pagination of the data service for a request
ResponsePagination(req) ==
  [currentPage |-> req.page, totalPages |-> servicePages, limit |-> req.limit]

\* Map.get / Map.has on the sequence of entries
NoEntry == [key |-> <<>>, data |-> NoRows, age |-> 0]
HasKey(cache, key) == \E i \in 1..Len(cache) : cache[i].key = key
GetEntry(cache, key) ==
  IF HasKey(cache, key)
  THEN cache[CHOOSE i \in 1..Len(cache) : cache[i].key = key]
  ELSE NoEntry

\* Map.set keeps the position of a key that is present and appends a new one
MapSet(cache, entry) ==
  IF HasKey(cache, entry.key)
  THEN [i \in 1..Len(cache) |-> IF cache[i].key = entry.key THEN entry ELSE cache[i]]
  ELSE Append(cache, entry)

\* an updater that never deletes
CacheStoreAll(prev, entry) == MapSet(prev, entry)

\* the updater handed to setPageCache on a response
CacheStore(prev, entry) ==
  LET newCache == MapSet(prev, entry)
  IN IF Len(newCache) > CacheLimit THEN Tail(newCache) ELSE newCache

\* a read that serves whatever the Map holds
FreshForever(cache, key) == HasKey(cache, key)

\* cached && (Date.now() - cached.timestamp) < 300000
Fresh(cache, key) == HasKey(cache, key) /\ GetEntry(cache, key).age < CacheTTL

\* history: one read of the cache by fetch or handlePageChange
ReadRecord(v, C, page, bg, hit, sent, qnow) ==
  [page |-> page, background |-> bg,
   present |-> HasKey(C.cache, getCacheKey(v, C.q, page)),
   age |-> GetEntry(C.cache, getCacheKey(v, C.q, page)).age,
   hit |-> hit, sent |-> sent,
   entryReq |-> GetEntry(C.cache, getCacheKey(v, C.q, page)).data,
   currentReq |-> RequestParams(v, [C EXCEPT !.q = qnow], page)]

\* fetchCallLogs(page, isBackground) / fetchAreaCodes(page, isBackground) of the
\* render C, up to the await
fetch(v, L, C, page, bg, qnow) ==
  LET cacheKey == getCacheKey(v, C.q, page)
      cached == GetEntry(C.cache, cacheKey)
  IN IF v = "areaCodes" /\ C.q.selectedDataSource = NoDataSource THEN L
     ELSE IF Fresh(C.cache, cacheKey)
     THEN LET L1 == IF ~bg
                    THEN [L EXCEPT !.rows = cached.data,
                                   !.pagination = ResponsePagination(cached.data),
                                   !.isInitialLoading = FALSE]
                    ELSE L
          IN [L1 EXCEPT !.reads = @ \cup {ReadRecord(v, C, page, bg, TRUE, FALSE, qnow)}]
     ELSE LET L1 == IF ~bg /\ C.empty THEN [L EXCEPT !.isInitialLoading = TRUE] ELSE L
          IN [L1 EXCEPT !.inflight = @ \cup {[key |-> cacheKey,
                                               req |-> RequestParams(v, C, page),
                                               background |-> bg]},
                        !.reads = @ \cup {ReadRecord(v, C, page, bg, FALSE, TRUE, qnow)}]

\* a continuation that writes the response to the view whoever asked for it
fetchResolvedWrites(v, L, r) ==
  LET cacheData == [key |-> r.key, data |-> r.req, age |-> 0]
  IN [L EXCEPT !.pageCache = CacheStore(@, cacheData), !.touched = TRUE,
               !.rows = r.req, !.pagination = ResponsePagination(r.req),
               !.isInitialLoading = FALSE]

\* the continuation of fetch after the await: the response has arrived
fetchResolved(v, L, r) ==
  LET cacheData == [key |-> r.key, data |-> r.req, age |-> 0]
      L1 == [L EXCEPT !.pageCache = CacheStore(@, cacheData), !.touched = TRUE]
      L2 == IF ~r.background
            THEN [L1 EXCEPT !.rows = r.req, !.pagination = ResponsePagination(r.req),
                            !.isInitialLoading = FALSE]
            ELSE L1
  IN IF v = "areaCodes" /\ ~r.background THEN [L2 EXCEPT !.isLoading = FALSE] ELSE L2

\* the catch (and finally) of fetch: the request has failed
fetchRejected(v, L, r) ==
  IF r.background THEN L
  ELSE IF v = "callLogs"
       THEN [L EXCEPT !.error = "failed", !.isInitialLoading = FALSE]
       ELSE [L EXCEPT !.error = "failed", !.isLoading = FALSE]

\* the list view as one record: the state of the current render plus what the
\* handler running now has set (touched: setPageCache was called; filtersSet: the
\* context handed out a new filters object)
ListState ==
  [q |-> q, rows |-> rows, pagination |-> pagination,
   isInitialLoading |-> isInitialLoading, isLoading |-> isLoading, error |-> error,
   pageCache |-> pageCache, inflight |-> inflight, ltimers |-> ltimers,
   touched |-> FALSE, filtersSet |-> FALSE, reads |-> {}]

SetList(L) ==
  /\ q' = L.q
  /\ rows' = L.rows
  /\ pagination' = L.pagination
  /\ isInitialLoading' = L.isInitialLoading
  /\ isLoading' = L.isLoading
  /\ error' = L.error
  /\ pageCache' = L.pageCache
  /\ inflight' = L.inflight
  /\ ltimers' = L.ltimers
  /\ reads' = L.reads

WithinBounds(L) ==
  /\ Cardinality(L.inflight) <= MaxInflight
  /\ Cardinality(L.ltimers) <= MaxListTimers

\* a pending setTimeout callback of the list view
Timer(kind, left, C, page, total, bg, value) ==
  [kind |-> kind, left |-> left, C |-> C, page |-> page, total |-> total,
   background |-> bg, value |-> value]

AddTimer(L, t) == [L EXCEPT !.ltimers = @ \cup {t}]

\* prefetchPages(currentPage, totalPages) of the render C
PrefetchList(currentPage, totalPages) ==
  SelectSeq(<<currentPage + 1, currentPage + 2, currentPage - 1>>,
            LAMBDA page : page > 0 /\ page <= totalPages)

prefetchPages(v, L, C, currentPage, totalPages) ==
  LET pagesToPrefetch == PrefetchList(currentPage, totalPages)
      missing == {i \in 1..Len(pagesToPrefetch) :
                    ~HasKey(C.cache, getCacheKey(v, C.q, pagesToPrefetch[i]))}
  IN [L EXCEPT !.ltimers = @ \cup
        {Timer("fetch", (i - 1) * PrefetchStagger, C, pagesToPrefetch[i], 0, TRUE, "") :
           i \in missing}]

\* handlePageChange(page) of the render C
handlePageChange(v, L, C, page, qnow) ==
  LET cacheKey == getCacheKey(v, C.q, page)
      cached == GetEntry(C.cache, cacheKey)
  IN IF Fresh(C.cache, cacheKey)
     THEN AddTimer([L EXCEPT !.rows = cached.data,
                             !.pagination = ResponsePagination(cached.data),
                             !.reads = @ \cup {ReadRecord(v, C, page, FALSE, TRUE, FALSE, qnow)}],
                   Timer("prefetch", PageChangePrefetchDelay, C, page,
                         ResponsePagination(cached.data).totalPages, FALSE, ""))
     ELSE fetch(v, L, C, page, FALSE, qnow)

\* handleSort(column) of the render whose parameters are L.q
handleSort(v, L, C, column) ==
  LET L1 == [L EXCEPT !.pageCache = <<>>, !.touched = TRUE]
      L2 == IF L.q.sortBy = column
            THEN [L1 EXCEPT !.q.sortOrder = IF L.q.sortOrder = "asc" THEN "desc" ELSE "asc"]
            ELSE [L1 EXCEPT !.q.sortBy = column, !.q.sortOrder = "desc"]
  IN IF v = "areaCodes"
     THEN AddTimer(L2, Timer("fetch", 0, C, 1, 0, FALSE, ""))
     ELSE L2

\* a handleSearch that sets a new timer and leaves the pending one to fire
handleSearchKeepsTimer(v, L, value) ==
  AddTimer(L, Timer("search", SearchDebounce(v), NoClosure, 0, 0, FALSE, value))

\* handleSearch(value): the timer searchTimeoutRef holds is cleared, a new one is set
handleSearch(v, L, value) ==
  [L EXCEPT !.ltimers = {t \in @ : t.kind # "search"} \cup
                        {Timer("search", SearchDebounce(v), NoClosure, 0, 0, FALSE, value)}]

\* the callback of the search timer
searchCallback(L, value) ==
  [L EXCEPT !.q.searchTerm = value, !.pageCache = <<>>, !.touched = TRUE]

\* onChange of the page-size select of CallLogsPage
changePageSize(L, C, newSize) ==
  AddTimer([L EXCEPT !.q.pageSize = newSize, !.pageCache = <<>>, !.touched = TRUE],
           Timer("fetch", 0, C, 1, 0, FALSE, ""))

\* the parameters as a fetch created by the current render would read them
Actual(params) ==
  [params EXCEPT !.memoAreaCode = params.urlAreaCode, !.memoExtension = params.urlExtension]

\* the dependency lists of the hooks, compared between the previous render A and
\* the state B to be rendered
KeyDepsChanged(v, A, B) == getCacheKey(v, A.q, 1) # getCacheKey(v, B.q, 1)

FetchDepsChanged(v, A, B) ==
  \/ KeyDepsChanged(v, A, B)
  \/ B.touched
  \/ B.filtersSet
  \/ (A.rows = NoRows) # (B.rows = NoRows)
  \/ v = "areaCodes" /\ A.pagination.limit # B.pagination.limit

LoadDepsChanged(v, A, B) ==
  IF v = "callLogs"
  THEN \/ <<A.q.selectedDataSource, A.q.sortBy, A.q.sortOrder, A.q.searchTerm,
            A.q.urlCallType, A.q.pageSize>>
          # <<B.q.selectedDataSource, B.q.sortBy, B.q.sortOrder, B.q.searchTerm,
              B.q.urlCallType, B.q.pageSize>>
       \/ B.filtersSet
  ELSE <<A.q.selectedDataSource, A.q.sortBy, A.q.sortOrder, A.q.searchTerm,
         A.q.filters, A.q.stateFilter>>
       # <<B.q.selectedDataSource, B.q.sortBy, B.q.sortOrder, B.q.searchTerm,
           B.q.filters, B.q.stateFilter>>

PrefetchDepsChanged(v, A, B) ==
  \/ (A.rows = NoRows) # (B.rows = NoRows)
  \/ A.pagination.currentPage # B.pagination.currentPage
  \/ A.pagination.totalPages # B.pagination.totalPages
  \/ A.isInitialLoading # B.isInitialLoading
  \/ FetchDepsChanged(v, A, B)

\* the render of state B after render A: useCallback keeps the fetchCallLogs of an
\* earlier render, and the searchParams it captured, unless a dependency changed
Render(v, A, B) ==
  IF v = "callLogs" /\ ~FetchDepsChanged(v, A, B)
  THEN B
  ELSE [B EXCEPT !.q = Actual(B.q)]

\* a load effect that fetches page 1 and leaves the Map as it is
loadEffectKeepsMap(v, L, C) ==
  fetch(v, [L EXCEPT !.isInitialLoading = TRUE], C, 1, FALSE, Actual(C.q))

\* the effects of the render R that follows render A, in the order of declaration;
\* all run in the closure of R, their state updates are batched
loadEffect(v, L, C) ==
  fetch(v, [L EXCEPT !.pageCache = <<>>, !.touched = TRUE, !.isInitialLoading = TRUE],
        C, 1, FALSE, Actual(C.q))

prefetchEffect(v, L, C, R) ==
  IF R.rows # NoRows /\ R.pagination.totalPages > 1 /\ ~R.isInitialLoading
  THEN AddTimer(L, Timer("prefetch", PrefetchDelay, C, R.pagination.currentPage,
                         R.pagination.totalPages, FALSE, ""))
  ELSE L

dataSourceEffect(v, L, C) ==
  IF C.q.selectedDataSource # NoDataSource THEN fetch(v, L, C, 1, TRUE, Actual(C.q)) ELSE L

Effects(v, A, R, mount) ==
  LET C == Closure(R, R.q)
      L0 == [R EXCEPT !.touched = FALSE, !.filtersSet = FALSE]
      L1 == IF mount \/ LoadDepsChanged(v, A, R) THEN loadEffect(v, L0, C) ELSE L0
      L2 == IF mount \/ PrefetchDepsChanged(v, A, R) THEN prefetchEffect(v, L1, C, R) ELSE L1
  IN IF v = "areaCodes" /\ (mount \/ A.q.selectedDataSource # R.q.selectedDataSource)
     THEN dataSourceEffect(v, L2, C)
     ELSE L2

\* what follows a handler that took the view from render A to state B: the render,
\* its effects, and the render and effects their state updates cause
AfterHandler(v, A, B) ==
  LET R1 == Render(v, A, B)
      E1 == Effects(v, A, R1, FALSE)
      R2 == Render(v, R1, E1)
  IN Effects(v, [R1 EXCEPT !.touched = FALSE, !.filtersSet = FALSE], R2, FALSE)

\* the state after the component has mounted
Mounted(v, ds) ==
  LET L0 == [q |-> InitialParams(v, ds), rows |-> NoRows, pagination |-> InitialPagination(v),
             isInitialLoading |-> TRUE, isLoading |-> FALSE, error |-> Null,
             pageCache |-> <<>>, inflight |-> {}, ltimers |-> {},
             touched |-> FALSE, filtersSet |-> FALSE, reads |-> {}]
      E1 == Effects(v, L0, L0, TRUE)
  IN Effects(v, L0, Render(v, L0, E1), FALSE)

\* Date.now() moves on by d: every timestamp read later is d older
AgeBy(cache, d) ==
  [i \in 1..Len(cache) |-> [cache[i] EXCEPT !.age = Min(@ + d, AgeCap)]]

\* the clock is looked at when something can change: when the next timer is due,
\* and when an entry of the Map reaches its TTL and when it is one millisecond
\* past it
Ages == {pageCache[i].age : i \in 1..Len(pageCache)} \ {AgeCap}
TimerSteps == {d \in {t.left : t \in ltimers} : d > 0 /\ \A t \in ltimers : d <= t.left}
WaitSteps ==
  {d \in {m - a : a \in Ages, m \in {CacheTTL, AgeCap}} :
     d > 0 /\ \A t \in ltimers : d < t.left}
TimeSteps == TimerSteps \cup WaitSteps

UrlFields(v) ==
  IF v = "callLogs" THEN {"urlCallType", "urlAreaCode", "urlExtension"} ELSE {"stateFilter"}
UrlParameter(field) ==
  CASE field = "urlCallType" -> "type"
    [] field = "urlAreaCode" -> "areaCode"
    [] field = "urlExtension" -> "extension"
    [] field = "stateFilter" -> "state"

NoOps == [changes |-> 0, clicks |-> 0, waits |-> 0]
Budget == [changes |-> MaxChanges, clicks |-> MaxClicks, waits |-> MaxWaits]

ListInit ==
  /\ view \in Views
  /\ \E ds \in {NoDataSource, "cdrs_143.198.0.104"} :
       /\ q = Mounted(view, ds).q
       /\ rows = Mounted(view, ds).rows
       /\ pagination = Mounted(view, ds).pagination
       /\ isInitialLoading = Mounted(view, ds).isInitialLoading
       /\ isLoading = Mounted(view, ds).isLoading
       /\ error = Mounted(view, ds).error
       /\ pageCache = Mounted(view, ds).pageCache
       /\ inflight = Mounted(view, ds).inflight
       /\ ltimers = Mounted(view, ds).ltimers
       /\ reads = Mounted(view, ds).reads

\* a step of the list view: the handler took the view to L, React renders
ListStep(L, op) ==
  /\ WithinBounds(AfterHandler(view, ListState, L))
  /\ SetList(AfterHandler(view, ListState, L))
  /\ ops' = IF op = "none" THEN ops ELSE [ops EXCEPT ![op] = @ - 1]
  /\ UNCHANGED <<view, servicePages, chanVars, mountVars, settingsVars, usersVars, snapshotOf, dataVars>>

\* the data service answers a request, or the request fails
ListResponse(r, ok) ==
  /\ r \in inflight
  /\ LET L == [ListState EXCEPT !.inflight = @ \ {r}]
     IN ListStep(IF ok THEN fetchResolved(view, L, r) ELSE fetchRejected(view, L, r),
                 "none")

\* a click on one of the enabled pagination buttons: first, previous, next, last
PageChange(page) ==
  /\ ops.clicks > 0
  /\ page \in {1, pagination.currentPage - 1, pagination.currentPage + 1,
               pagination.totalPages}
  /\ page >= 1 /\ page <= pagination.totalPages /\ page # pagination.currentPage
  /\ ListStep(handlePageChange(view, ListState, Closure(ListState, q), page, Actual(q)),
              "clicks")

Sort(column) ==
  /\ ops.changes > 0
  /\ column \in SortColumns(view)
  /\ ListStep(handleSort(view, ListState, Closure(ListState, q), column), "changes")

Search(value) ==
  /\ ops.changes > 0
  /\ ListStep(handleSearch(view, ListState, value), "changes")

PageSize(newSize) ==
  /\ ops.changes > 0
  /\ view = "callLogs"
  /\ newSize # q.pageSize
  /\ ListStep(changePageSize(ListState, Closure(ListState, q), newSize), "changes")

\* the context changes the data source (SET_DATA_SOURCE)
DataSource(collection) ==
  /\ ops.changes > 0
  /\ collection # q.selectedDataSource
  /\ ListStep([ListState EXCEPT !.q.selectedDataSource = collection], "changes")

\* the context merges new filters (SET_FILTERS): a new filters object
Filters(f) ==
  /\ ops.changes > 0
  /\ ListStep([ListState EXCEPT !.q.filters = f, !.filtersSet = TRUE], "changes")

\* navigation to the same route with another search string
UrlChange(field, value) ==
  /\ ops.changes > 0
  /\ field \in UrlFields(view)
  /\ value \in UrlValues[UrlParameter(field)]
  /\ value # q[field]
  /\ ListStep([ListState EXCEPT !.q = [@ EXCEPT ![field] = value]], "changes")

\* a timer of the list view is due
timerCallbackList(v, L, t, qnow) ==
  CASE t.kind = "prefetch" -> prefetchPages(v, L, t.C, t.page, t.total)
    [] t.kind = "fetch" -> fetch(v, L, t.C, t.page, t.background, qnow)
    [] t.kind = "search" -> searchCallback(L, t.value)

ListTimerFire(t) ==
  /\ t \in ltimers
  /\ t.left = 0
  /\ ListStep(timerCallbackList(view, [ListState EXCEPT !.ltimers = @ \ {t}], t, Actual(q)),
              "none")

\* time passes; the HTTP client gives up a request after RequestTimeout, so none is
\* in flight across a longer step
Advance(d) ==
  /\ d \in TimeSteps
  /\ d > 0
  /\ d > RequestTimeout => inflight = {}
  /\ d \in WaitSteps => ops.waits > 0
  /\ ops' = IF d \in WaitSteps THEN [ops EXCEPT !.waits = @ - 1] ELSE ops
  /\ pageCache' = AgeBy(pageCache, d)
  /\ ltimers' = {[t EXCEPT !.left = @ - d, !.C.cache = AgeBy(@, d)] : t \in ltimers}
  /\ reads' = {}
  /\ UNCHANGED <<view, q, rows, pagination, isInitialLoading, isLoading, error, inflight,
                 servicePages, chanVars, mountVars, settingsVars, usersVars, snapshotOf, dataVars>>

\* the list view before any route has mounted it, for the behaviours of the channel
ListIdle ==
  /\ view = "callLogs"
  /\ q = InitialParams("callLogs", NoDataSource)
  /\ rows = NoRows
  /\ pagination = InitialPagination("callLogs")
  /\ isInitialLoading = TRUE
  /\ isLoading = FALSE
  /\ error = Null
  /\ pageCache = <<>>
  /\ inflight = {}
  /\ ltimers = {}
  /\ servicePages = TotalPages
  /\ ops = NoOps
  /\ reads = {}

Init == ChanInit /\ ListIdle

(***************************************************************************)
(* Spec: the connection lifecycle of the channel.  Inbound messages are    *)
(* left to SpecMsg: onmessage writes the snapshot and the timestamp only,  *)
(* which no other handler reads.                                           *)
(***************************************************************************)
Next ==
  \/ \E c \in Collections : ConsumerConnect(c)
  \/ ConsumerDisconnect
  \/ RefreshData
  \/ \E tok \in Tokens \cup {Null} : TokenChange(tok)
  \/ \E i \in SourceIds : ESOpen(i)
  \/ \E i \in SourceIds, fatal \in BOOLEAN : ESError(i, fatal)
  \/ \E t \in Pending(timers) : TimerFire(t)

Spec == Init /\ [][Next]_vars

(***************************************************************************)
(* SpecMsg: the inbound messages of the stream, with connects, drops and   *)
(* reconnects around them.                                                 *)
(***************************************************************************)
NextMsg ==
  \/ \E c \in Collections : ConsumerConnect(c)
  \/ ConsumerDisconnect
  \/ \E i \in SourceIds : ESOpen(i)
  \/ \E i \in SourceIds, raw \in RawEvents : ESMessage(i, raw)
  \/ \E i \in SourceIds, fatal \in BOOLEAN : ESError(i, fatal)
  \/ \E t \in Pending(timers) : TimerFire(t)

SpecMsg == Init /\ [][NextMsg]_vars

(***************************************************************************)
(* Claims about the Live Update Channel.                                   *)
(***************************************************************************)

\* C1: the i-th of up to 5 transport errors in a row (no successful open and no
\* consumer call in between) schedules its reconnect after min(1000 * 2^(i-1), 30000)
\* ms, i.e. after 1000, 2000, 4000, 8000, 16000 ms, and a further error gives up.
C1_BackoffSchedule ==
  \A i \in 1..Len(errRun) :
    errRun[i] = IF i <= maxReconnectAttempts THEN BackoffDelay(i - 1) ELSE GaveUp

ReconnectTimers(ts) == {t \in Pending(ts) : t.kind = "reconnect"}

\* C6: when the token goes from present to absent while the channel is connecting
\* or connected, the same step leaves connectionStatus = disconnected, isConnected
\* = false, the held subscription closed and released and no reconnect timer pending.
C6_TokenLossDisconnects ==
  [][(token # Null /\ token' = Null /\ connectionStatus \in {"connecting", "connected"})
       => /\ connectionStatus' = "disconnected"
          /\ isConnected' = FALSE
          /\ eventSourceRef' = NoId
          /\ (eventSourceRef # NoId => sources'[eventSourceRef].state = "closed")
          /\ ReconnectTimers(timers') = {}]_vars

\* the state disconnect() is specified to leave behind
Disconnected(s) ==
  /\ s.eventSourceRef = NoId
  /\ s.reconnectTimeoutRef = NoId
  /\ ReconnectTimers(s.timers) = {}
  /\ s.connectionStatus = "disconnected"
  /\ s.isConnected = FALSE
  /\ s.currentCollectionRef = Null
  /\ s.reconnectAttemptsRef = 0

\* C7: after disconnect(), called in any state, no subscription is held (a held one
\* was closed), no reconnect timer is pending, connectionStatus = disconnected,
\* isConnected = false, the tracked collection is cleared and the counter is 0.
C7_DisconnectResets ==
  [][ConsumerDisconnect
       => /\ Disconnected(Chan')
          /\ (eventSourceRef # NoId => sources'[eventSourceRef].state = "closed")]_vars

\* C8: every subscription that is not CLOSED is the one eventSourceRef holds, so at
\* most one is open at any time.
C8_SingleSubscription ==
  \A i \in SourceIds : Live(sources[i]) => eventSourceRef = i

C8_Witness ==
  \E i, j \in SourceIds :
    /\ sources[i].state = "closed"
    /\ sources[j].state = "open"
    /\ eventSourceRef = j

\* C9: the held snapshot is the data of the most recent dashboard-update that
\* carried data, nothing else merged in, and lastUpdate is that message's timestamp.
C9_SnapshotIsLastUpdate ==
  IF lastDataMsg = NoEvent
  THEN dashboardData = NoData /\ lastUpdate = Null
  ELSE dashboardData = lastDataMsg.data /\ lastUpdate = lastDataMsg.timestamp

C9_Witness ==
  /\ lastDataMsg # NoEvent
  /\ dashboardData = [areaCodeDistribution |-> 2]
  /\ lastUpdate = "ts2"
  /\ connectionStatus = "connected"

\* the inbound events C10 is about
Ignorable(raw) ==
  \/ raw.shape \in {"garbage", "null"}
  \/ (raw.shape = "object" /\ raw.type \in {"heartbeat", "connected", "other"})

\* C10: a heartbeat, a connected notice, an unknown tag or an unparsable payload
\* leaves the snapshot, lastUpdate, connectionStatus, isConnected, the attempt
\* counter and the held subscription (still open) unchanged.
C10_IgnoredMessagesChangeNothing ==
  [][\A i \in SourceIds, raw \in RawEvents :
        (Ignorable(raw) /\ ESMessage(i, raw))
          => UNCHANGED <<dashboardData, lastUpdate, connectionStatus, isConnected,
                         reconnectAttemptsRef, eventSourceRef, sources>>]_vars

C10_Witness ==
  /\ heartbeatLast
  /\ dashboardData = [summary |-> 1]
  /\ lastUpdate = "ts1"
  /\ connectionStatus = "connected"

(***************************************************************************)
(* SpecCache: a list view after it has mounted, its user, its timers, the  *)
(* data service and the clock.                                             *)
(***************************************************************************)
InitCache == ChanInit /\ token \in Tokens /\ ListInit /\ servicePages = TotalPages /\ ops = Budget

NextCache ==
  \/ \E r \in inflight, ok \in BOOLEAN : ListResponse(r, ok)
  \/ \E page \in 1..servicePages : PageChange(page)
  \/ \E column \in SortColumns(view) : Sort(column)
  \/ \E value \in SearchInputs : Search(value)
  \/ \E newSize \in PageSizes : PageSize(newSize)
  \/ \E collection \in Collections : DataSource(collection)
  \/ \E f \in FilterValues : Filters(f)
  \/ \E field \in UrlFields(view) : \E value \in UrlValues[UrlParameter(field)] : UrlChange(field, value)
  \/ \E t \in ltimers : ListTimerFire(t)
  \/ \E d \in TimeSteps : Advance(d)

SpecCache == InitCache /\ [][NextCache]_vars

TypeOKList ==
  /\ view \in Views
  /\ ops.changes \in Nat /\ ops.clicks \in Nat /\ ops.waits \in Nat
  /\ Len(pageCache) <= CacheLimit
  /\ WithinBounds(ListState)


(***************************************************************************)
(* SpecEvict: a patient user pages forward through a long result, each     *)
(* click made once the view has settled, each request answered at once.   *)
(***************************************************************************)
EvictPages == 52

InitEvict ==
  /\ ChanInit /\ token \in Tokens
  /\ ListInit
  /\ servicePages = EvictPages
  /\ ops = [changes |-> 0, clicks |-> EvictPages, waits |-> 0]

NextEvict ==
  \/ \E r \in inflight : ListResponse(r, TRUE)
  \/ (inflight = {} /\ ltimers = {} /\ PageChange(pagination.currentPage + 1))
  \/ \E t \in ltimers : ListTimerFire(t)
  \/ \E d \in TimerSteps : inflight = {} /\ Advance(d)

SpecEvict == InitEvict /\ [][NextEvict]_vars

\* C2: whenever fetch or handlePageChange reads an entry that is more than 300000 ms
\* old, the entry is not served: the read is a miss and the request goes to the data
\* service.
C2_ExpiredIsMiss ==
  \A r \in reads : (r.present /\ r.age > CacheTTL) => (~r.hit /\ r.sent)

C2_Witness ==
  \E r \in reads : r.present /\ r.age > CacheTTL /\ ~r.background /\ ~r.hit /\ r.sent

\* C3: an entry that a foreground fetch or a page change serves from the cache was
\* fetched with the request parameters that are current at the read.
C3_ServedForCurrentRequest ==
  \A r \in reads : (r.hit /\ ~r.background) => r.entryReq = r.currentReq

KeysOf(cache) == {cache[i].key : i \in 1..Len(cache)}

\* C4: the Map never holds more than 50 entries, and an insertion of a new key into a
\* full Map removes the entry whose key was inserted earliest and nothing else.
C4_BoundedEvictsEarliest ==
  /\ [](Len(pageCache) <= CacheLimit)
  /\ [][(Len(pageCache) = CacheLimit /\ KeysOf(pageCache') \ KeysOf(pageCache) # {})
          => /\ Len(pageCache') = CacheLimit
             /\ SubSeq(pageCache', 1, CacheLimit - 1) = Tail(pageCache)
             /\ pageCache[1].key \notin KeysOf(pageCache')]_vars

C4_Witness ==
  /\ Len(pageCache) = CacheLimit
  /\ pageCache[1].key[1] = 2
  /\ pageCache[CacheLimit].key[1] = CacheLimit + 1

Visible(L) == <<L.rows, L.pagination, L.isInitialLoading, L.isLoading, L.error>>

\* C5: a background fetch leaves the visible rows, the visible pagination, the
\* loading flags and the error slot as they are: when it reads the cache, when its
\* response arrives and when its request fails.
C5_BackgroundLeavesView ==
  /\ \A page \in 1..servicePages :
       Visible(fetch(view, ListState, Closure(ListState, q), page, TRUE, Actual(q)))
         = Visible(ListState)
  /\ \A t \in ltimers : (t.kind = "fetch" /\ t.background) =>
       Visible(fetch(view, ListState, t.C, t.page, TRUE, Actual(q))) = Visible(ListState)
  /\ \A r \in inflight : r.background =>
       /\ Visible(fetchResolved(view, ListState, r)) = Visible(ListState)
       /\ Visible(fetchRejected(view, ListState, r)) = Visible(ListState)

C5_Witness ==
  /\ rows # NoRows
  /\ error = Null
  /\ \E r \in inflight : r.background /\ r.req # rows
  /\ \E page \in 1..servicePages : Fresh(pageCache, getCacheKey(view, q, page))

\* the parameters C11 names, and the request for a page under given parameters
ListedParams(params) ==
  <<params.searchTerm, params.sortBy, params.sortOrder, params.filters,
    params.selectedDataSource, params.pageSize>>

RequestUnder(params, limit, page) ==
  RequestParams(view, [q |-> Actual(params), cache |-> <<>>, empty |-> TRUE,
                       limit |-> limit], page)

ForegroundReadOfPage1 ==
  \E r \in reads' :
    /\ r.page = 1 /\ ~r.background /\ (r.hit \/ r.sent)
    /\ r.currentReq = RequestUnder(q', pagination.limit, 1)

\* C11: a step that changes the search term, the sort column or order, the filters,
\* the data source or the page size leaves the Map empty and has read page 1 in the
\* foreground under the new parameters.
C11_ChangeClearsAndRefetches ==
  [][ListedParams(q') # ListedParams(q)
       => (pageCache' = <<>> /\ ForegroundReadOfPage1)]_vars

\* C11 as amended: the same, but the area-codes view reads page 1 only while a data
\* source is selected; with none selected the Map is emptied and nothing is fetched.
C11_Amended ==
  [][ListedParams(q') # ListedParams(q)
       => /\ pageCache' = <<>>
          /\ IF view = "areaCodes" /\ q'.selectedDataSource = NoDataSource
             THEN reads' = {} /\ inflight' = inflight
             ELSE ForegroundReadOfPage1]_vars

C11_Witness ==
  /\ ops.changes = 0
  /\ rows # NoRows
  /\ pageCache = <<>>
  /\ \E r \in reads : r.page = 1 /\ ~r.background /\ r.sent
                      /\ r.currentReq = RequestUnder(q, pagination.limit, 1)

(***************************************************************************)
(* SpecSearch: a list view whose user types in the search box, several     *)
(* inputs in a row, while the timers run and the data service answers.     *)
(***************************************************************************)
MaxSearches == 2

InitSearch ==
  /\ ChanInit /\ token \in Tokens
  /\ ListInit
  /\ servicePages = TotalPages
  /\ ops = [changes |-> MaxSearches, clicks |-> 0, waits |-> 0]

\* the text of the search box: the input last made, as far as the view's state tells
LastInput ==
  IF \E t \in ltimers : t.kind = "search"
  THEN (CHOOSE t \in ltimers : t.kind = "search").value
  ELSE q.searchTerm

NextSearch ==
  \/ \E r \in inflight : ListResponse(r, TRUE)
  \/ \E value \in SearchInputs \ {LastInput} : Search(value)
  \/ \E t \in ltimers : ListTimerFire(t)
  \/ \E d \in TimerSteps : Advance(d)

SpecSearch == InitSearch /\ [][NextSearch]_vars

\* the search timers pending, a step that is a search input, a step in which the
\* search timer t fires, and the foreground reads a step makes
SearchTimers == {t \in ltimers : t.kind = "search"}
SearchInputStep == ops'.changes < ops.changes
SearchFires(t) ==
  /\ t \in SearchTimers /\ t.left = 0
  /\ t \notin ltimers'
  /\ ops'.changes = ops.changes
ForegroundReads == {r \in reads' : ~r.background}
OneFetchFor(value) ==
  /\ Cardinality(ForegroundReads) = 1
  /\ \A r \in ForegroundReads :
       r.page = 1 /\ r.sent /\ ~r.hit /\ r.currentReq.search = value

NewTimers == ltimers' \ ltimers

ConnectedTo(c) ==
  /\ isConnected /\ connectionStatus = "connected"
  /\ eventSourceRef # NoId /\ sources[eventSourceRef].state = "open"
  /\ currentCollectionRef = c

\* C14: connect(c) called while the channel is connected to c, by a consumer or by
\* a timer callback, neither closes nor reopens the subscription and leaves
\* connectionStatus and the tracked collection as they are; called by a consumer it
\* leaves the counter and the timers as they are too.
C14_ConnectWhenConnectedNoOp ==
  [][\A c \in Collections : ConnectedTo(c) =>
       /\ ConsumerConnect(c) =>
            UNCHANGED <<sources, eventSourceRef, connectionStatus, isConnected,
                        currentCollectionRef, reconnectAttemptsRef,
                        reconnectTimeoutRef, timers>>
       /\ \A t \in Pending(timers) : (t.coll = c /\ TimerFire(t)) =>
            UNCHANGED <<sources, eventSourceRef, connectionStatus, isConnected,
                        currentCollectionRef>>]_vars

\* C15: connect(c) called while no token is held, by a consumer or by a timer
\* callback, opens no subscription and leaves the held subscription,
\* connectionStatus and the tracked collection as they are; called by a consumer it
\* leaves the counter and the timers as they are too.
C15_ConnectWithoutTokenNoOp ==
  [][token = Null =>
       /\ \A c \in Collections : ConsumerConnect(c) =>
            UNCHANGED <<sources, eventSourceRef, connectionStatus, isConnected,
                        currentCollectionRef, reconnectAttemptsRef,
                        reconnectTimeoutRef, timers>>
       /\ \A t \in Pending(timers) : TimerFire(t) =>
            UNCHANGED <<sources, eventSourceRef, connectionStatus, isConnected,
                        currentCollectionRef>>]_vars

\* C16: when the token goes from absent to present while a collection was targeted
\* before (and no consumer has disconnected since), the same step leaves a
\* subscription to that collection held and not CLOSED.
C16_LoginReconnects ==
  [][(token = Null /\ token' # Null /\ targeted # Null)
       => /\ eventSourceRef' # NoId
          /\ Live(sources'[eventSourceRef'])
          /\ sources'[eventSourceRef'].coll = targeted]_vars

(***************************************************************************)
(* SpecUnmount: the consumers of the channel come and go.  DashboardPage   *)
(* mounts, its data source changes, it unmounts; the provider unmounts.    *)
(* Timers and EventSource objects outlive the components that made them.   *)
(***************************************************************************)
NoDashboard == [mounted |-> FALSE, isConnected |-> FALSE, collection |-> Null]

\* the connection effect of DashboardPage (enableRealtime is on) in a render with
\* (tok, conn), and its cleanup, which tests the isConnected the effect captured
connectionEffect(s, collection, tok, conn) == connect(s, collection, tok, conn)

connectionCleanup(s, conn) ==
  IF conn THEN [disconnect(s) EXCEPT !.targeted = Null] ELSE s

DashboardMount(collection) ==
  /\ providerMounted /\ ~dashboard.mounted
  /\ CanConnect(Chan, collection, token, isConnected)
  /\ SetChan(connectionEffect(Chan, collection, token, isConnected))
  /\ dashboard' = [mounted |-> TRUE, isConnected |-> isConnected,
                   collection |-> collection]
  /\ errRun' = <<>>
  /\ UNCHANGED <<token, dashboardData, lastUpdate, heartbeatLast, lastDataMsg,
                 providerMounted, listVars, settingsVars, usersVars, snapshotOf, dataVars>>

\* selectedDataSource changes: the cleanup of the previous run, then the effect
DashboardDataSource(collection) ==
  /\ providerMounted /\ dashboard.mounted
  /\ collection # dashboard.collection
  /\ LET s1 == connectionCleanup(Chan, dashboard.isConnected)
     IN /\ CanConnect(s1, collection, token, isConnected)
        /\ SetChan(connectionEffect(s1, collection, token, isConnected))
  /\ dashboard' = [mounted |-> TRUE, isConnected |-> isConnected,
                   collection |-> collection]
  /\ errRun' = <<>>
  /\ UNCHANGED <<token, dashboardData, lastUpdate, heartbeatLast, lastDataMsg,
                 providerMounted, listVars, settingsVars, usersVars, snapshotOf, dataVars>>

DashboardUnmount ==
  /\ providerMounted /\ dashboard.mounted
  /\ SetChan(connectionCleanup(Chan, dashboard.isConnected))
  /\ dashboard' = NoDashboard
  /\ errRun' = <<>>
  /\ UNCHANGED <<token, dashboardData, lastUpdate, heartbeatLast, lastDataMsg,
                 providerMounted, listVars, settingsVars, usersVars, snapshotOf, dataVars>>

\* the provider unmounts, and the dashboard it contains with it: the cleanup of the
\* provider's unmount effect, then the cleanup of the dashboard's effect
ProviderUnmount ==
  /\ providerMounted
  /\ LET s1 == disconnect(Chan)
     IN SetChan(IF dashboard.mounted
                THEN connectionCleanup(s1, dashboard.isConnected)
                ELSE s1)
  /\ providerMounted' = FALSE
  /\ dashboard' = NoDashboard
  /\ errRun' = <<>>
  /\ UNCHANGED <<token, dashboardData, lastUpdate, heartbeatLast, lastDataMsg, listVars,
                 settingsVars, usersVars, snapshotOf, dataVars>>

NextUnmount ==
  \/ \E c \in Collections : DashboardMount(c)
  \/ \E c \in Collections : DashboardDataSource(c)
  \/ DashboardUnmount
  \/ ProviderUnmount
  \/ \E tok \in Tokens \cup {Null} : providerMounted /\ TokenChange(tok)
  \/ \E i \in SourceIds : ESOpen(i)
  \/ \E i \in SourceIds, fatal \in BOOLEAN : ESError(i, fatal)
  \/ \E t \in Pending(timers) : TimerFire(t)

SpecUnmount == Init /\ [][NextUnmount]_vars

\* C17: a step in which the dashboard or the provider unmounts leaves no
\* subscription that is not CLOSED and no reconnect timer pending.
C17_UnmountDisconnects ==
  [][((dashboard.mounted /\ ~dashboard'.mounted) \/ (providerMounted /\ ~providerMounted'))
       => /\ \A i \in SourceIds : ~Live(sources'[i])
          /\ ReconnectTimers(timers') = {}]_vars

(***************************************************************************)
(* SpecGiveUp: a connection that keeps failing, long enough for the        *)
(* attempt counter to reach its maximum.                                   *)
(***************************************************************************)
GiveUpErrRun == 6

NextGiveUp ==
  \/ \E c \in Collections : ConsumerConnect(c)
  \/ \E i \in SourceIds : ESOpen(i)
  \/ \E i \in SourceIds, fatal \in BOOLEAN : ESErrorWithin(i, fatal, GiveUpErrRun)
  \/ \E t \in Pending(timers) : TimerFire(t)

InitGiveUp == Init /\ token \in Tokens

SpecGiveUp == InitGiveUp /\ [][NextGiveUp]_vars

\* the channel has given up: the counter is at its maximum and the last error has
\* set connectionStatus to disconnected
GivenUp == reconnectAttemptsRef >= maxReconnectAttempts /\ connectionStatus = "disconnected"

\* C18: a transport error that arrives with the counter at its maximum leaves
\* connectionStatus = disconnected and sets no timer, and from then on the channel
\* stays disconnected and opens no subscription in any step that is not a call of
\* connect by a consumer.
C18_GivesUpAndStaysDown ==
  [][/\ \A i \in SourceIds, fatal \in BOOLEAN :
          (reconnectAttemptsRef >= maxReconnectAttempts
             /\ ESErrorWithin(i, fatal, GiveUpErrRun))
            => (connectionStatus' = "disconnected" /\ timers' = timers)
     /\ (GivenUp /\ ~\E c \in Collections : ConsumerConnect(c))
          => (connectionStatus' = "disconnected" /\ sources' = sources)]_vars

(***************************************************************************)
(* SpecNames: the stored data-source names are written by the settings     *)
(* page and by whatever else writes the item, and read back.               *)
(***************************************************************************)
\* the item is written from outside the service (another tab, another version, the
\* user), removed, or the storage becomes unavailable
StorageWrite(item) ==
  /\ item # localStorage
  /\ localStorage' = item
  /\ UNCHANGED <<names, chanVars, listVars, mountVars, usersVars, snapshotOf, dataVars>>

SetDataSourceName(key, name) ==
  /\ localStorage' = setDataSourceName(localStorage, key, name)
  /\ UNCHANGED <<names, chanVars, listVars, mountVars, usersVars, snapshotOf, dataVars>>

GetDataSourceNames ==
  /\ names' = getDataSourceNames(localStorage)
  /\ UNCHANGED <<localStorage, chanVars, listVars, mountVars, usersVars, snapshotOf, dataVars>>

NextNames ==
  \/ \E item \in StoredItems : StorageWrite(item)
  \/ \E key \in DataSourceKeys, name \in NameInputs : SetDataSourceName(key, name)
  \/ GetDataSourceNames

SpecNames == Init /\ [][NextNames]_vars

\* the stored item gives no name for the key: one of the cases the claim lists
NoStoredName(ls, key) ==
  \/ ls.shape # "object"
  \/ ls.entries[key] \in {Undefined, Str("")}

\* C19: whatever the storage holds, getDataSourceNames returns for each key a name
\* whose text (the one getDataSourceOptions puts in the label) is not empty, and the
\* default name of the key when the storage is unavailable, empty, not JSON, not an
\* object or holds no name or '' for the key.
C19_NamesNeverEmpty ==
  [][GetDataSourceNames =>
       \A key \in DataSourceKeys :
         /\ names'[key].s # ""
         /\ NoStoredName(localStorage, key) => names'[key] = Str(DEFAULT_NAMES[key])]_vars

\* C20: when the reconnect timer the ref holds fires while the token is still held,
\* the step leaves the counter one higher, connectionStatus = connecting and a new
\* subscription to the timer's collection held, whatever isConnected was when
\* connect was called.
C20_TimerReconnects ==
  [][\A t \in Pending(timers) :
        (t.kind = "reconnect" /\ t.held /\ token # Null
           /\ reconnectAttemptsRef < maxReconnectAttempts /\ TimerFire(t))
          => /\ reconnectAttemptsRef' = reconnectAttemptsRef + 1
             /\ connectionStatus' = "connecting"
             /\ eventSourceRef' # NoId
             /\ sources'[eventSourceRef'].state = "connecting"
             /\ sources'[eventSourceRef'].coll = t.coll]_vars

(***************************************************************************)
(* Further claims about the Paginated Query Cache.                         *)
(***************************************************************************)

\* every request has been answered, none has failed in the foreground, and no timer
\* that will fetch in the foreground or set the search term is pending
Settled ==
  /\ inflight = {}
  /\ error = Null
  /\ \A t \in ltimers : t.kind = "prefetch"

\* C21: once every request has been answered (the route carrying no parameter in
\* its URL), the visible rows are the answer to a request made under the current
\* parameters, and every entry of the Map is stored under a key of the current
\* parameters.
C21_SettlesOnCurrentParameters ==
  (Settled /\ rows # NoRows /\ \A field \in UrlFields(view) : q[field] = Null)
    => /\ [rows EXCEPT !.page = 1] = RequestUnder(q, pagination.limit, 1)
       /\ \A i \in 1..Len(pageCache) :
            pageCache[i].key = getCacheKey(view, q, pageCache[i].data.page)

(***************************************************************************)
(* Further claims about the Live Update Channel, continued.                *)
(***************************************************************************)

\* disconnect() has run, by a consumer or on token loss, and neither connect nor
\* refreshData has been called with effect since
AfterDisconnect ==
  /\ targeted = Null \/ token = Null
  /\ connectionStatus = "disconnected"
  /\ eventSourceRef = NoId
  /\ currentCollectionRef = Null

\* C22: after disconnect(), a step that is not a call of connect by a consumer
\* opens no subscription and leaves connectionStatus = disconnected: no timer that is
\* still pending has an effect when it fires.
C22_StaysDownAfterDisconnect ==
  [][(AfterDisconnect /\ ~\E c \in Collections : ConsumerConnect(c))
       => (connectionStatus' = "disconnected" /\ sources' = sources)]_vars

(***************************************************************************)
(* Further claims about the Paginated Query Cache, continued.              *)
(***************************************************************************)

\* the timers prefetchPages(currentPage, totalPages) is specified to set: one for
\* each in-range candidate that has no entry in the Map, the i-th candidate
\* (counting from 0) after i * 100 ms
PrefetchTargets(currentPage, totalPages) ==
  LET candidates == PrefetchList(currentPage, totalPages)
  IN {[page |-> candidates[i], left |-> (i - 1) * PrefetchStagger] :
        i \in {j \in 1..Len(candidates) :
                 ~HasKey(pageCache, getCacheKey(view, q, candidates[j]))}}

\* C23: the step in which a prefetch timer fires sets background fetch timers for
\* exactly the in-range candidates without an entry in the Map, staggered by 100 ms,
\* all for pages within 1..totalPages.
C23_PrefetchesMissingNeighbours ==
  [][\A t \in ltimers :
        (t.kind = "prefetch" /\ t.left = 0 /\ ListTimerFire(t))
          => /\ {[page |-> n.page, left |-> n.left] : n \in NewTimers}
                  = PrefetchTargets(t.page, t.total)
             /\ \A n \in NewTimers :
                  n.kind = "fetch" /\ n.background /\ n.page \in 1..t.total]_vars

\* C24: a click on page p makes one read of the Map.  If the Map holds an entry for
\* p that is under 5 minutes old and is the answer to the request the current
\* parameters make for p, the step shows that entry, sends nothing, shows no loading
\* state and sets a prefetch timer around p; otherwise it starts one foreground
\* fetch of p.
C24_PageChangeServesOrFetches ==
  [][ops'.clicks < ops.clicks =>
       \E r \in reads' :
         /\ reads' = {r} /\ ~r.background
         /\ IF r.present /\ r.age < CacheTTL /\ r.entryReq = r.currentReq
            THEN /\ r.hit /\ ~r.sent /\ inflight' = inflight
                 /\ rows' = r.entryReq /\ pagination' = ResponsePagination(r.entryReq)
                 /\ ~isInitialLoading' /\ ~isLoading'
                 /\ \E t \in NewTimers :
                      t.kind = "prefetch" /\ t.page = r.page
                        /\ t.left = PageChangePrefetchDelay
            ELSE ~r.hit /\ r.sent]_vars

\* a subscription to the collection is held: the EventSource in the ref was opened for it
Holds(srcs, ref, collection) ==
  ref # NoId /\ Live(srcs[ref]) /\ srcs[ref].coll = collection

\* C25: refreshData() called while a collection c is tracked closes the held
\* subscription, sets the status to disconnected and sets a timer of 100 ms for c;
\* when that timer fires a subscription to c is held.  Called while no collection
\* is tracked it changes nothing.
C25_RefreshReconnectsSame ==
  [][/\ (RefreshData /\ currentCollectionRef # Null)
          => /\ connectionStatus' = "disconnected" /\ ~isConnected'
             /\ eventSourceRef' = NoId
             /\ eventSourceRef # NoId => ~Live(sources'[eventSourceRef])
             /\ \E t \in Pending(timers') :
                  /\ t.kind = "refresh" /\ t.coll = currentCollectionRef
                  /\ t.delay = RefreshDelay
                  /\ CopiesIn(t, timers') = CopiesIn(t, timers) + 1
     /\ (RefreshData /\ currentCollectionRef = Null)
          => UNCHANGED <<token, isConnected, dashboardData, lastUpdate, connectionStatus,
                         eventSourceRef, reconnectTimeoutRef, currentCollectionRef,
                         reconnectAttemptsRef, sources, timers>>
     /\ \A t \in Pending(timers) :
          (t.kind = "refresh" /\ TimerFire(t))
            => /\ Holds(sources', eventSourceRef', t.coll)
               /\ currentCollectionRef' = t.coll
               /\ connectionStatus' \in {"connecting", "connected"}]_vars

(***************************************************************************)
(* UsersPage: the steps of the view.                                       *)
(***************************************************************************)
\* the fetch effect: the cleanup of the previous run aborts its controller, then
\* fetchUsers is called with the signal of a new one
UsersEffect(query) ==
  LET r == fetchUsers(usersShown, usersRequests, query, usersRun + 1, usersRun + 1)
  IN /\ usersRun < MaxUsersRuns
     /\ usersQuery' = query
     /\ usersShown' = r.shown
     /\ usersRequests' = r.requests
     /\ usersRun' = usersRun + 1
     /\ UNCHANGED <<chanVars, listVars, mountVars, settingsVars, snapshotOf, dataVars>>

UsersMount == usersRun = 0 /\ UsersEffect(usersQuery)

\* the page renders its controls unless it returns the spinner or the error page
UsersControls ==
  /\ usersRun > 0
  /\ ~(usersShown.loading /\ usersShown.users = NoUsers)
  /\ ~(usersShown.error # Null /\ usersShown.users = NoUsers)

\* a handler changes a dependency of the fetch effect
UsersChange(query) ==
  /\ UsersControls
  /\ query \in UsersHandlers(usersQuery, usersShown) \ {usersQuery}
  /\ UsersEffect(query)

\* the Retry button of the error page: fetchUsers() without a signal
UsersRetry ==
  /\ usersRun > 0
  /\ ~(usersShown.loading /\ usersShown.users = NoUsers)
  /\ usersShown.error # Null /\ usersShown.users = NoUsers
  /\ LET r == fetchUsers(usersShown, usersRequests, usersQuery, NoSignal, usersRun)
     IN usersShown' = r.shown /\ usersRequests' = r.requests
  /\ UNCHANGED <<usersQuery, usersRun, chanVars, listVars, mountVars, settingsVars, snapshotOf, dataVars>>

\* the promise of userService.getUsers settles
UsersSettle(call, ok) ==
  /\ call \in usersRequests
  /\ usersShown' = fetchUsersSettled(usersShown, call, ok, usersRun)
  /\ usersRequests' = usersRequests \ {call}
  /\ UNCHANGED <<usersQuery, usersRun, chanVars, listVars, mountVars, settingsVars, snapshotOf, dataVars>>

NextUsers ==
  \/ UsersMount
  \/ \E query \in UsersHandlers(usersQuery, usersShown) : UsersChange(query)
  \/ UsersRetry
  \/ \E call \in usersRequests, ok \in BOOLEAN : UsersSettle(call, ok)

SpecUsers == Init /\ [][NextUsers]_vars

\* C26: a request made by a run of the fetch effect that is no longer the latest
\* one is aborted, and when it settles the user list, the totals, the error message
\* and the loading flag stay as they are.
C26_StaleOutcomeWritesNothing ==
  [][\A call \in usersRequests, ok \in BOOLEAN :
       (call.run < usersRun /\ UsersSettle(call, ok))
         => (Canceled(call.request, usersRun) /\ usersShown' = usersShown)]_vars

(***************************************************************************)
(* Further claims about the snapshot and the connection state.             *)
(***************************************************************************)

\* C27: a snapshot the channel exposes was delivered by a subscription to the
\* collection the channel tracks now: none is exposed after disconnect(), and after
\* connect(c2) none that was pushed for another collection.
C27_SnapshotOfTrackedCollection ==
  dashboardData # NoData => snapshotOf = currentCollectionRef

\* the sort column and order (area codes) or the page size (call logs) of a request
\* are those of the parameters
CarriesCurrent(req, params) ==
  IF view = "areaCodes"
  THEN req.sortBy = params.sortBy /\ req.sortOrder = params.sortOrder
  ELSE req.limit = params.pageSize

\* C28: every request a step sends carries the sort column and order (area-codes
\* view) or the page size (call-logs view) of the render the step leaves, and a
\* cache entry a step shows was stored under them.
C28_FetchesCarryNewValue ==
  [][/\ \A x \in inflight' \ inflight : CarriesCurrent(x.req, q')
     /\ \A r \in reads' : r.hit => CarriesCurrent(r.entryReq, q')]_vars

\* C29: isConnected is true exactly when connectionStatus is connected, and while
\* the status is connecting or connected the ref holds an EventSource that is not
\* closed and was opened for the tracked collection.
C29_StatusMatchesSubscription ==
  /\ isConnected <=> connectionStatus = "connected"
  /\ connectionStatus \in {"connecting", "connected"}
       => Holds(sources, eventSourceRef, currentCollectionRef)

C29_Witness ==
  /\ connectionStatus = "connected" /\ isConnected
  /\ Holds(sources, eventSourceRef, currentCollectionRef)
  /\ \E t \in Pending(timers) : t.kind = "reconnect"

(***************************************************************************)
(* DataProvider: the selected data source, its copy in localStorage and    *)
(* the effect that enforces the permissions of the authenticated user.     *)
(***************************************************************************)
MaxDataCalls == 3    \* calls of setDataSource and changes of the user in a behaviour

Unconfigured == "cdrs_10.0.0.1"

\* user.databasePermissions of the users that log in
PermissionLists ==
  {<<>>, <<"cdrs_143.198.0.104">>, <<"cdrs_167.71.120.52", "cdrs_143.198.0.104">>,
   <<Unconfigured, "cdrs_167.71.120.52">>, <<Unconfigured>>}

\* useAuth().user: null until a user is authenticated
NoUser == [loggedIn |-> FALSE, databasePermissions |-> <<>>]
Users == {[loggedIn |-> TRUE, databasePermissions |-> perms] : perms \in PermissionLists}

\* what setDataSource is called with
SourceInputs == DataSourceKeys \cup {Unconfigured}

Includes(list, value) == \E i \in 1..Len(list) : list[i] = value

\* getDataSourceOptions().map(o => o.value): the keys of getDataSourceNames()
Configured(value) == value \in DataSourceKeys

\* perms.filter(v => configured.includes(v))
Allowed(perms) == SelectSeq(perms, Configured)

\* persistDataSource(value): a failure of setItem is ignored
persistDataSource(storage, value, fails) == IF fails THEN storage ELSE value

\* dataReducer, case SET_DATA_SOURCE
dataReducer(state, payload, fails) ==
  [selectedDataSource |-> payload,
   storedDataSource |-> persistDataSource(state.storedDataSource, payload, fails)]

\* mutant: the effect picks the first allowed source whatever is stored
enforcedFirstAllowed(usr, selected, storage) ==
  IF usr = NoUser THEN selected
  ELSE IF Len(usr.databasePermissions) = 0 THEN selected
  ELSE IF Len(Allowed(usr.databasePermissions)) = 0 THEN selected
  ELSE Allowed(usr.databasePermissions)[1]

\* the enforcing effect: the source it wants selected (the selected one when it returns early)
enforced(usr, selected, storage) ==
  IF usr = NoUser THEN selected
  ELSE IF Len(usr.databasePermissions) = 0 THEN selected
  ELSE IF Len(Allowed(usr.databasePermissions)) = 0 THEN selected
  ELSE LET stored == IF storage = Null THEN "" ELSE storage
       IN IF stored # "" /\ Includes(Allowed(usr.databasePermissions), stored) THEN stored
          ELSE Allowed(usr.databasePermissions)[1]

DataState == [selectedDataSource |-> selectedDataSource, storedDataSource |-> storedDataSource]

\* the DataProvider mounts with no user, in a browser whose storage holds the
\* selection of an earlier session
DataMount(storage) ==
  /\ ~enforcement.mounted
  /\ storedDataSource' = storage
  /\ enforcement' = [enforcement EXCEPT !.mounted = TRUE, !.calls = MaxDataCalls]
  /\ UNCHANGED <<user, selectedDataSource>>
  /\ UNCHANGED <<chanVars, listVars, mountVars, settingsVars, usersVars, snapshotOf>>

\* setDataSource(source), called when no effect is pending
SetDataSource(source, fails) ==
  /\ enforcement.mounted /\ ~enforcement.due /\ enforcement.calls > 0
  /\ LET s == dataReducer(DataState, source, fails)
     IN /\ selectedDataSource' = s.selectedDataSource
        /\ storedDataSource' = s.storedDataSource
  /\ enforcement' = [enforcement EXCEPT !.due = (source # selectedDataSource), !.runs = 0,
                                        !.lastWrite = IF fails THEN "failed" ELSE "ok",
                                        !.calls = @ - 1]
  /\ UNCHANGED user
  /\ UNCHANGED <<chanVars, listVars, mountVars, settingsVars, usersVars, snapshotOf>>

\* login, logout, or the user object is replaced
UserChange(usr) ==
  /\ enforcement.mounted /\ ~enforcement.due /\ enforcement.calls > 0
  /\ usr # user
  /\ user' = usr
  /\ enforcement' = [enforcement EXCEPT !.due = TRUE, !.runs = 0, !.calls = @ - 1]
  /\ UNCHANGED <<selectedDataSource, storedDataSource>>
  /\ UNCHANGED <<chanVars, listVars, mountVars, settingsVars, usersVars, snapshotOf>>

\* the enforcing effect runs after the render in which user or selectedDataSource changed
EnforceEffect(fails) ==
  /\ enforcement.due
  /\ LET next == enforced(user, selectedDataSource, storedDataSource)
         s == IF selectedDataSource # next THEN dataReducer(DataState, next, fails)
              ELSE DataState
     IN /\ selectedDataSource' = s.selectedDataSource
        /\ storedDataSource' = s.storedDataSource
        /\ enforcement' =
             [enforcement EXCEPT !.due = (selectedDataSource # next), !.runs = @ + 1,
                                 !.lastWrite = IF selectedDataSource = next THEN @
                                               ELSE IF fails THEN "failed" ELSE "ok"]
  /\ UNCHANGED user
  /\ UNCHANGED <<chanVars, listVars, mountVars, settingsVars, usersVars, snapshotOf>>

NextData ==
  \/ \E storage \in SourceInputs \cup {Null, ""} : DataMount(storage)
  \/ \E source \in SourceInputs, fails \in BOOLEAN : SetDataSource(source, fails)
  \/ \E usr \in Users \cup {NoUser} : UserChange(usr)
  \/ \E fails \in BOOLEAN : EnforceEffect(fails)

SpecData == Init /\ [][NextData]_vars

\* the user is authenticated and is permitted at least one configured source
Entitled(usr) == usr # NoUser /\ Len(Allowed(usr.databasePermissions)) > 0

\* the stored selection if it is permitted, otherwise the first permitted source
Preferred(storage, allowed) ==
  IF storage # Null /\ Includes(allowed, storage) THEN storage ELSE allowed[1]

================================================================
